---- MODULE Spec2Model ----
(***************************************************************************)
(* Ocean Time Machine VR: the scene/year orchestration layer.              *)
(*                                                                         *)
(*   SceneManager     the guarded, ordered scene transition                *)
(*                    (js/scene-manager.js)                                *)
(*   EarthController  year switching and the auto-play scheduler           *)
(*                    (js/gaze-controller.js and its later variant)        *)
(*                                                                         *)
(* JavaScript runs one task at a time: every action below is one task of   *)
(* the event loop (an event handler or a timer callback) together with the *)
(* promise continuations it releases, which run before the next task.      *)
(***************************************************************************)
EXTENDS Integers, Sequences, FiniteSets, TLC

VARIABLES
    \* ---- SceneManager ----
    currentScene,      \* this.currentScene
    isTransitioning,   \* this.isTransitioning
    sceneVisible,      \* the 'visible' attribute of each this.sceneElements[year]
    fadeOverlay,       \* this.fadeOverlay is an element (TRUE) or null (FALSE)
    overlayVisible,    \* the 'visible' attribute of the fade overlay
    flights,           \* the switchScene activations past the guard, not yet settled
    calls,             \* collaborator calls and awaited steps of the newest transition
    sceneLog,          \* the last console message of switchScene
    resolved,          \* the accepted switchScene call whose promise resolved last
    resetAt,           \* currentScene when the promise of reset() resolved last
    \* ---- EarthController ----
    build,             \* which EarthController variant the page loads
    currentYear,       \* this.currentYear
    autoPlay,          \* this.autoPlay
    autoPlayTimer,     \* this.autoPlayTimer: an interval id, or NoTimer for null
    intervals,         \* the live setInterval timers: id -> ms until the next fire
    earthVisible,      \* the 'visible' attribute of each Earth sphere element
    sphereRotation,    \* the 'rotation' attribute of each Earth sphere element
    spheresBound,      \* this.earthSpheres and this.yearButtons hold the elements
    listening,         \* setup() has registered the DOM listeners
    sinceReset,        \* ms since resetAutoPlay last restarted the timer (WindowOver: past)
    ticksSinceReset,   \* auto-play ticks fired since then
    lastEarthOp,       \* the last EarthController operation that ran, and its argument
    \* ---- EarthController: drag rotation and inertia ----
    globeRotation,     \* this.globeRotation (currentRotation in the first variant)
    isDragging,        \* isDragging
    previousMousePosition, \* previousMousePosition
    velocity,          \* velocity
    frames,            \* the pending requestAnimationFrame callbacks, by id
    inertiaAnimationId,\* inertiaAnimationId: a frame id, or NoFrame for null
    hotspotRotation,   \* the 'rotation' attribute of the hotspot elements
    containerRotation, \* the 'rotation' attribute of #earth-container
    moves,             \* pointer moves handled during drags so far
    lastRotOp,         \* the last pointer or frame handler that ran
    downTarget,        \* e.target of the last mousedown or touchstart
    \* ---- AudioController ----
    isInitialized,     \* this.isInitialized
    audioShared,       \* the scene table names one audio element for every year
    currentAudio,      \* this.currentAudio: an element, or NoAudio for null
    masterVolume,      \* this.masterVolume
    volume,            \* the volume of each audio element
    paused,            \* the paused flag of each audio element
    fades,             \* the live fade interval timers, in the order they fire
    playPromises,      \* the play() promises not settled yet
    finishedFade,      \* the fade whose timer was cleared last
    playbackBlocked,   \* play() promises the platform has rejected so far
    audioCalls,        \* playSceneAudio and stopSceneAudio calls made so far
    transitionVolume,  \* the volume of the transition cue element
    mixerCalls,        \* muteAll, unmuteAll and setMasterVolume calls made so far
    lastMixerOp,       \* the last of these that ran
    mPresses,          \* presses of the M key handled so far
    requested,         \* per element: the newest request, and what came before it
    \* ---- UIManager ----
    uiTimers,          \* the pending subtitle timers, in the order they were created
    subtitleText,      \* the text of the subtitle display
    subtitleHidden,    \* the subtitle display has the class 'hidden'
    currentSubtitles,  \* this.currentSubtitles: the scene whose cue list it is
    uiCalls,           \* startSubtitles and showSubtitle calls made from outside so far
    \* ---- the page ----
    isReady,           \* app.isReady
    cleanedUp,         \* the page's cleanup routine has run
    \* ---- GazeController ----
    isGazing,          \* this.isGazing
    gazeTarget,        \* this.gazeTarget: a portal, or NoArg for null
    gazeStartTime,     \* this.gazeStartTime
    lastGazeOp,        \* the last cursor event handled, and the element it hit
    \* ---- the page: asset loading ----
    assetsElement,     \* the document has an a-assets element
    totalAssets,       \* the number of its children
    reported,          \* the assets that have fired 'loaded' or 'error' so far
    loadedAssets,      \* loadedAssets of trackAssetLoading
    assetsLoaded,      \* app.assetsLoaded
    tracking,          \* onSceneLoaded has run: the asset listeners are registered
    startTimers,       \* pending timers of onAssetsLoaded
    starts             \* runs of startExperience so far

sceneVars == <<currentScene, isTransitioning, sceneVisible, fadeOverlay,
               overlayVisible, flights, calls, sceneLog, resolved, resetAt>>
earthVars == <<build, currentYear, autoPlay, autoPlayTimer, intervals,
               earthVisible, sphereRotation, spheresBound, listening, sinceReset,
               ticksSinceReset, lastEarthOp>>
rotVars == <<globeRotation, isDragging, previousMousePosition, velocity, frames,
             inertiaAnimationId, hotspotRotation, containerRotation, moves, lastRotOp,
             downTarget>>
audioVars == <<isInitialized, audioShared, currentAudio, masterVolume, volume, paused,
               fades, playPromises, finishedFade, playbackBlocked, audioCalls,
               transitionVolume,
               mixerCalls, lastMixerOp, mPresses, requested>>
pageVars == <<uiTimers, subtitleText, subtitleHidden, currentSubtitles, uiCalls,
              isReady, cleanedUp>>
gazeVars == <<isGazing, gazeTarget, gazeStartTime, lastGazeOp>>
loadVars == <<assetsElement, totalAssets, reported, loadedAssets, assetsLoaded, tracking,
              startTimers, starts>>
vars == <<sceneVars, earthVars, rotVars, audioVars, pageVars, gazeVars, loadVars>>

---------------------------------------------------------------------------
(* Configuration                                                           *)

\* CONFIG.scenes: the keys of the scene table
SceneKeys == {"2000", "2010", "2020", "2050"}

\* CONFIG.scenes and this.sceneElements are object literals: a lookup by a
\* name that Object.prototype defines yields the inherited member, which is
\* truthy and is no element
ObjectPrototypeKeys == {"constructor"}

\* a year that no table knows
UnknownYear == "1999"

\* CONFIG.sceneOrder
sceneOrder == <<"2000", "2010", "2020", "2050">>

\* the arguments switchScene is exercised with
SceneArgs == SceneKeys \cup ObjectPrototypeKeys \cup {UnknownYear}

\* the truthiness of CONFIG.scenes[targetYear]
ScenesLookup(targetYear) == targetYear \in SceneKeys \cup ObjectPrototypeKeys

NoArg == "-"
NoFault == "none"
\* no accepted call has resolved yet
None == [from |-> NoArg, to |-> NoArg, scene |-> NoArg, guard |-> FALSE, threw |-> FALSE]

---------------------------------------------------------------------------
(* SceneManager.switchScene                                                *)

\* the calls of switchScene that run a collaborator and may therefore throw
FaultSteps == {"fadeOutStart", "fadeOutAnimate", "stopSceneAudio", "hideScene", "showScene",
               "updateSceneInfo", "startSubtitles", "playTransition",
               "fadeInStart", "fadeInEnd", "playSceneAudio", "updateWaterLevel"}

\* the faults the environment injects: none, or one throwing collaborator call
Faults(injected) == IF injected THEN FaultSteps \cup {NoFault} ELSE {NoFault}

\* the steps between the fade-to-opaque and the settle delay, in program order
StepsAfterFadeOut_NoCommit ==
    <<"stopSceneAudio", "hideScene", "showScene",
      "updateSceneInfo", "startSubtitles", "playTransition">>
StepsAfterFadeOut ==
    <<"stopSceneAudio", "hideScene", "commit", "showScene",
      "updateSceneInfo", "startSubtitles", "playTransition">>

\* the steps after the fade-from-opaque, in program order
StepsAfterFadeIn_AnimationFirst == <<"updateWaterLevel", "playSceneAudio">>
StepsAfterFadeIn == <<"playSceneAudio", "updateWaterLevel">>

\* the SceneManager state a run of synchronous steps works on
SM == [currentScene |-> currentScene, isTransitioning |-> isTransitioning,
       sceneVisible |-> sceneVisible, overlayVisible |-> overlayVisible,
       calls |-> calls, sceneLog |-> sceneLog, threw |-> FALSE]

Logged(s, name, arg) == [s EXCEPT !.calls = Append(@, <<name, arg>>)]

\* sceneEl.setAttribute('visible', v) on this.sceneElements[year]: an
\* inherited member is truthy and has no setAttribute (TypeError)
SetSceneVisibleThrows(year) == year \in ObjectPrototypeKeys
SetSceneVisible(s, year, v) ==
    IF year \in DOMAIN s.sceneVisible
    THEN [s EXCEPT !.sceneVisible[year] = v]
    ELSE s

\* the argument a step is called with
StepArg(s, step, targetYear) ==
    CASE step \in {"stopSceneAudio", "hideScene"} -> s.currentScene
      [] step = "playTransition"                  -> NoArg
      [] OTHER                                    -> targetYear

\* whether the step throws: by the code itself, or by the injected fault
StepThrows(s, step, targetYear, fault) ==
    \/ fault = step
    \/ step = "hideScene" /\ SetSceneVisibleThrows(s.currentScene)
    \/ step = "showScene" /\ SetSceneVisibleThrows(targetYear)

\* one step that returned normally
StepEffect(s, step, targetYear) ==
    CASE step = "hideScene" -> SetSceneVisible(s, s.currentScene, FALSE)
      [] step = "commit"    -> [s EXCEPT !.currentScene = targetYear]
      [] step = "showScene" -> SetSceneVisible(s, targetYear, TRUE)
      [] OTHER              -> s

\* one step of the try block: skipped once an earlier step threw
RunStep(s, step, targetYear, fault) ==
    IF s.threw THEN s
    ELSE LET l == Logged(s, step, StepArg(s, step, targetYear))
         IN  IF StepThrows(s, step, targetYear, fault)
             THEN [l EXCEPT !.threw = TRUE]
             ELSE StepEffect(l, step, targetYear)

RECURSIVE RunSteps(_, _, _, _)
RunSteps(s, steps, targetYear, fault) ==
    IF steps = <<>> THEN s
    ELSE RunSteps(RunStep(s, Head(steps), targetYear, fault),
                  Tail(steps), targetYear, fault)

\* catch (log the error) and finally (clear the guard); the promise resolves
Finally_GuardKept(s) ==
    [s EXCEPT !.sceneLog = IF s.threw THEN "error" ELSE "complete"]
Finally(s) ==
    [s EXCEPT !.isTransitioning = FALSE,
              !.sceneLog = IF s.threw THEN "error" ELSE "complete"]

\* the outcome of a run: the state it leaves and where the activation waits
Outcome(s, pc) == [s |-> s, pc |-> pc]

\* lines 111-127: the continuation of 'await this.fadeIn()'
AfterFadeIn(s, targetYear, fault) ==
    Outcome(Finally(RunSteps(Logged(s, "fadeIn", NoArg), StepsAfterFadeIn,
                             targetYear, fault)), "done")

\* fadeIn(): the promise executor
FadeInStart_AlwaysWaits(s, targetYear, fault) ==
    IF fault = "fadeInStart" THEN Outcome(Finally([s EXCEPT !.threw = TRUE]), "done")
    ELSE Outcome(s, "fadeInWait")
FadeInStart(s, targetYear, fault) ==
    IF ~fadeOverlay THEN AfterFadeIn(s, targetYear, fault)
    ELSE IF fault = "fadeInStart" THEN Outcome(Finally([s EXCEPT !.threw = TRUE]), "done")
    ELSE Outcome(s, "fadeInWait")

\* lines 106-109: the continuation of 'await this.delay(300)'
AfterDelay(s, targetYear, fault) ==
    FadeInStart(Logged(s, "delay", NoArg), targetYear, fault)

\* lines 79-106: the continuation of 'await this.fadeOut()'
AfterFadeOut(s, targetYear, fault) ==
    LET r == RunSteps(Logged(s, "fadeOut", NoArg), StepsAfterFadeOut, targetYear, fault)
    IN  IF r.threw THEN Outcome(Finally(r), "done") ELSE Outcome(r, "delayWait")

\* fadeOut(): the promise executor.  A throw in it rejects the promise: of the
\* overlay's first setAttribute (nothing changed yet) or of a later one.
FadeOutStart(s, targetYear, fault) ==
    IF ~fadeOverlay THEN AfterFadeOut(s, targetYear, fault)
    ELSE IF fault = "fadeOutStart" THEN Outcome(Finally([s EXCEPT !.threw = TRUE]), "done")
    ELSE IF fault = "fadeOutAnimate"
         THEN Outcome(Finally([s EXCEPT !.threw = TRUE, !.overlayVisible = TRUE]), "done")
    ELSE Outcome([s EXCEPT !.overlayVisible = TRUE], "fadeOutWait")

\* the fade-from-opaque timer callback: hide the overlay, then resolve.  A
\* throw in the callback is outside the try block and the promise never settles.
FadeInTimer(s, targetYear, fault) ==
    IF fault = "fadeInEnd" THEN Outcome(s, "stuck")
    ELSE AfterFadeIn([s EXCEPT !.overlayVisible = FALSE], targetYear, fault)

\* the guard of switchScene: which of the early returns is taken, if any
Rejection_NoAlreadyCheck(s, targetYear) ==
    IF s.isTransitioning THEN "busy"
    ELSE IF ~ScenesLookup(targetYear) THEN "invalid"
    ELSE "accepted"
Rejection_NoBusyCheck(s, targetYear) ==
    IF ~ScenesLookup(targetYear) THEN "invalid"
    ELSE IF s.currentScene = targetYear THEN "already"
    ELSE "accepted"
Rejection(s, targetYear) ==
    IF s.isTransitioning THEN "busy"
    ELSE IF ~ScenesLookup(targetYear) THEN "invalid"
    ELSE IF s.currentScene = targetYear THEN "already"
    ELSE "accepted"

\* write an outcome back; the activation f settles or keeps waiting
Commit(o, others, f) ==
    /\ currentScene' = o.s.currentScene
    /\ isTransitioning' = o.s.isTransitioning
    /\ sceneVisible' = o.s.sceneVisible
    /\ overlayVisible' = o.s.overlayVisible
    /\ calls' = o.s.calls
    /\ sceneLog' = o.s.sceneLog
    /\ flights' = IF o.pc = "done" THEN others
                  ELSE Append(others, [f EXCEPT !.pc = o.pc])
    /\ resolved' = IF o.pc = "done"
                   THEN [from |-> f.from, to |-> f.to, scene |-> o.s.currentScene,
                         guard |-> o.s.isTransitioning, threw |-> o.s.threw]
                   ELSE resolved
    /\ resetAt' = IF o.pc = "done" /\ f.reset THEN o.s.currentScene ELSE resetAt
    /\ UNCHANGED fadeOverlay

Without(seq, i) == SubSeq(seq, 1, i - 1) \o SubSeq(seq, i + 1, Len(seq))

\* switchScene(targetYear), up to its first suspension point; awaited is
\* whether reset() made the call and resolves when it does
switchScene(targetYear, fault, awaited) ==
    LET why == Rejection(SM, targetYear)
    IN  /\ why # "accepted" => fault = NoFault
        /\ IF why # "accepted"
           THEN /\ sceneLog' = why
                /\ resetAt' = IF awaited THEN currentScene ELSE resetAt
                /\ UNCHANGED <<currentScene, isTransitioning, sceneVisible, fadeOverlay,
                               overlayVisible, flights, calls, resolved>>
           ELSE LET s == [SM EXCEPT !.isTransitioning = TRUE, !.calls = <<>>,
                                    !.sceneLog = "transitioning"]
                    f == [from |-> currentScene, to |-> targetYear, pc |-> "start",
                          reset |-> awaited]
                IN  Commit(FadeOutStart(s, targetYear, fault), flights, f)

\* a call of switchScene by the page
SwitchScene(targetYear, fault) ==
    /\ switchScene(targetYear, fault, FALSE)
    /\ UNCHANGED <<earthVars, rotVars, audioVars, pageVars, gazeVars, loadVars>>

\* reset(): await this.switchScene(CONFIG.sceneOrder[0])
Reset(fault) ==
    /\ switchScene(sceneOrder[1], fault, TRUE)
    /\ UNCHANGED <<earthVars, rotVars, audioVars, pageVars, gazeVars, loadVars>>

\* a timer of activation i fires and switchScene runs on to its next suspension point
SceneTimer(i, fault) ==
    LET f == flights[i]
        o == CASE f.pc = "fadeOutWait" -> AfterFadeOut(SM, f.to, fault)
               [] f.pc = "delayWait"   -> AfterDelay(SM, f.to, fault)
               [] f.pc = "fadeInWait"  -> FadeInTimer(SM, f.to, fault)
    IN  /\ f.pc \in {"fadeOutWait", "delayWait", "fadeInWait"}
        /\ Commit(o, Without(flights, i), f)
        /\ UNCHANGED <<earthVars, rotVars, audioVars, pageVars, gazeVars, loadVars>>

---------------------------------------------------------------------------
(* GazeController                                                          *)

\* the elements with the class 'portal'
Portals == {"portal-2010", "portal-2020", "portal-unmapped"}

\* what the cursor can hit: a portal, another element, or nothing (null)
Intersected == Portals \cup {"sky", NoArg}

\* CONFIG.portalMappings[portal.id]; NoArg for undefined
portalMappings(id) ==
    CASE id = "portal-2010" -> "2010"
      [] id = "portal-2020" -> "2020"
      [] OTHER              -> NoArg

\* the readings of Date.now()
ClockReadings == {1000, 3000}

\* the third component alternates, which tells one event from the next
GazeFrame(op, el) ==
    /\ lastGazeOp' = <<op, el, 1 - lastGazeOp[3]>>
    /\ UNCHANGED <<earthVars, rotVars, audioVars, pageVars, loadVars>>

\* the cursor's 'fusing' event: onGazeStart(e.detail.intersectedEl)
onGazeStart_NoGuard(portal, now) ==
    IF portal \notin Portals
    THEN UNCHANGED <<isGazing, gazeTarget, gazeStartTime>>
    ELSE /\ isGazing' = TRUE
         /\ gazeTarget' = portal
         /\ gazeStartTime' = now
onGazeStart(portal, now) ==
    IF portal \notin Portals \/ isTransitioning
    THEN UNCHANGED <<isGazing, gazeTarget, gazeStartTime>>
    ELSE /\ isGazing' = TRUE
         /\ gazeTarget' = portal
         /\ gazeStartTime' = now

Fusing(el, now) ==
    /\ onGazeStart(el, now)
    /\ UNCHANGED sceneVars
    /\ GazeFrame("fusing", el)

\* the cursor's 'click' event (the fuse completed): onGazeComplete(portal)
\* for a portal, which requests the mapped scene and resets the gaze
Click(el) ==
    /\ IF el \in Portals /\ portalMappings(el) # NoArg
       THEN /\ switchScene(portalMappings(el), NoFault, FALSE)
            /\ isGazing' = FALSE
            /\ gazeTarget' = NoArg
            /\ gazeStartTime' = 0
       ELSE UNCHANGED <<sceneVars, isGazing, gazeTarget, gazeStartTime>>
    /\ GazeFrame("click", el)

---------------------------------------------------------------------------
(* EarthController                                                         *)

\* the years of nextYear/previousYear and of the earthSpheres table, in order
YearOrder == <<"2000", "2010", "2020", "2050">>
Years == {YearOrder[i] : i \in 1..Len(YearOrder)}

\* the arguments switchYear is exercised with (the debug console passes anything)
YearArgs == Years \cup ObjectPrototypeKeys \cup {UnknownYear}

\* this.autoPlayInterval, in ms
autoPlayInterval == 5000

\* time advances in steps of this many per auto-play interval
StepsPerInterval == 2
TimeStep == autoPlayInterval \div StepsPerInterval

NoTimer == 0
\* sinceReset once the interval-long window after a reset is over
WindowOver == autoPlayInterval + 1

\* the EarthController state an operation works on
EC == [currentYear |-> currentYear, autoPlay |-> autoPlay,
       autoPlayTimer |-> autoPlayTimer, intervals |-> intervals,
       earthVisible |-> earthVisible, sphereRotation |-> sphereRotation,
       spheresBound |-> spheresBound, threw |-> FALSE, restarted |-> FALSE,
       fault |-> NoFault]

\* the collaborator calls of switchYear after the spheres are switched: the
\* button loop, updateSceneInfo and playNarration; the environment makes at
\* most one of them throw
UiFaults == {"yearButtons", "updateSceneInfo", "playNarration"}

\* years.indexOf(year), counted from 0; -1 when absent
IndexOf(year) ==
    IF year \in Years THEN (CHOOSE i \in 1..Len(YearOrder) : YearOrder[i] = year) - 1
    ELSE -1

\* the truthiness of this.earthSpheres[year]: earthSpheres is an object literal
SphereLookup(e, year) ==
    \/ e.spheresBound /\ year \in Years
    \/ year \in ObjectPrototypeKeys

\* this.earthSpheres[year].setAttribute('visible', v): an inherited member has
\* no setAttribute (TypeError)
SetSphereVisible(e, year, v) ==
    IF ~SphereLookup(e, year) THEN e
    ELSE IF year \in ObjectPrototypeKeys THEN [e EXCEPT !.threw = TRUE]
    ELSE [e EXCEPT !.earthVisible[year] = v]

\* the loop over this.yearButtons: after cleanup() the later variant holds a
\* plain object there, which has no forEach (TypeError)
UpdateButtons(e) ==
    IF build = "globe" /\ ~e.spheresBound THEN [e EXCEPT !.threw = TRUE] ELSE e

\* the later variant gives the sphere it shows the current globe rotation
SetSphereRotation(e, year) ==
    IF build = "globe" /\ ~e.threw /\ SphereLookup(e, year)
    THEN [e EXCEPT !.sphereRotation[year] = globeRotation]
    ELSE e

\* switchYear(year)
switchYear(e, year) ==
    IF e.currentYear = year THEN e
    ELSE LET hidden == SetSphereVisible(e, e.currentYear, FALSE)
             shown == IF hidden.threw THEN hidden
                      ELSE SetSphereRotation(SetSphereVisible(hidden, year, TRUE), year)
             buttons == IF shown.threw THEN shown ELSE UpdateButtons(shown)
             ui == IF ~buttons.threw /\ e.fault \in UiFaults
                   THEN [buttons EXCEPT !.threw = TRUE]
                   ELSE buttons
         IN  IF ui.threw THEN ui ELSE [ui EXCEPT !.currentYear = year]

\* nextYear()
nextYear(e) ==
    LET nextIndex == (IndexOf(e.currentYear) + 1) % Len(YearOrder)
    IN  switchYear(e, YearOrder[nextIndex + 1])

\* previousYear()
previousYear(e) ==
    LET prevIndex == (IndexOf(e.currentYear) - 1 + Len(YearOrder)) % Len(YearOrder)
    IN  switchYear(e, YearOrder[prevIndex + 1])

\* setInterval: the id of the new timer (ids are opaque: the least one free)
FreshTimer(e) ==
    CHOOSE id \in 1..(Cardinality(DOMAIN e.intervals) + 2) :
        /\ id \notin DOMAIN e.intervals
        /\ id # e.autoPlayTimer
        /\ \A j \in 1..(id - 1) : j \in DOMAIN e.intervals \/ j = e.autoPlayTimer

SetInterval(e, id, ms) ==
    [i \in DOMAIN e.intervals \cup {id} |-> IF i = id THEN ms ELSE e.intervals[i]]

\* clearInterval(id): unknown and cleared ids are ignored
ClearInterval(e, id) ==
    [i \in DOMAIN e.intervals \ {id} |-> e.intervals[i]]

\* startAutoPlay()
startAutoPlay(e) ==
    LET id == FreshTimer(e)
    IN  [e EXCEPT !.autoPlay = TRUE,
                  !.autoPlayTimer = id,
                  !.intervals = SetInterval(e, id, autoPlayInterval)]

\* stopAutoPlay()
stopAutoPlay_TimerKept(e) ==
    [e EXCEPT !.autoPlay = FALSE, !.autoPlayTimer = NoTimer]
stopAutoPlay(e) ==
    IF e.autoPlayTimer # NoTimer
    THEN [e EXCEPT !.autoPlay = FALSE,
                   !.intervals = ClearInterval(e, e.autoPlayTimer),
                   !.autoPlayTimer = NoTimer]
    ELSE [e EXCEPT !.autoPlay = FALSE]

\* toggleAutoPlay()
toggleAutoPlay(e) ==
    IF e.autoPlay THEN stopAutoPlay(e) ELSE startAutoPlay(e)

\* resetAutoPlay()
resetAutoPlay_NoClear(e) ==
    IF e.autoPlay
    THEN [startAutoPlay(e) EXCEPT !.restarted = e.autoPlayTimer # NoTimer]
    ELSE e
resetAutoPlay(e) ==
    IF e.autoPlay
    THEN LET cleared == IF e.autoPlayTimer # NoTimer
                        THEN [e EXCEPT !.intervals = ClearInterval(e, e.autoPlayTimer)]
                        ELSE e
         IN  [startAutoPlay(cleared) EXCEPT !.restarted = e.autoPlayTimer # NoTimer]
    ELSE e

\* cleanup()
cleanup(e) ==
    [stopAutoPlay(e) EXCEPT !.spheresBound = FALSE]

\* write the state an operation leaves; a restart by resetAutoPlay opens the
\* window in which the auto-play ticks are counted
LeaveEarth(e, op, arg) ==
    /\ currentYear' = e.currentYear
    /\ autoPlay' = e.autoPlay
    /\ autoPlayTimer' = e.autoPlayTimer
    /\ intervals' = e.intervals
    /\ earthVisible' = e.earthVisible
    /\ sphereRotation' = e.sphereRotation
    /\ spheresBound' = e.spheresBound
    /\ listening' = TRUE
    /\ sinceReset' = IF e.restarted THEN 0 ELSE sinceReset
    /\ ticksSinceReset' = IF e.restarted THEN 0 ELSE ticksSinceReset
    /\ lastEarthOp' = <<op, arg>>
    /\ UNCHANGED build

\* an operation of the controller leaves the other controllers alone
Leave(e, op, arg) ==
    /\ LeaveEarth(e, op, arg)
    /\ UNCHANGED <<sceneVars, rotVars, audioVars, pageVars, gazeVars, loadVars>>

\* setup(): bind the elements, register the listeners and, in the first
\* variant only, start auto-play
Setup ==
    /\ ~listening
    /\ LET bound == [EC EXCEPT !.spheresBound = TRUE]
       IN  Leave(IF build = "gaze" /\ bound.autoPlay THEN startAutoPlay(bound) ELSE bound,
                 "setup", NoArg)

\* the handler of a year button: switchYear(year); resetAutoPlay().  A throw
\* in switchYear ends the handler.
YearButtonHandler(year, op) ==
    /\ listening
    /\ LET switched == switchYear(EC, year)
       IN  Leave(IF switched.threw THEN switched ELSE resetAutoPlay(switched), op, year)

YearButtonClick(year) == YearButtonHandler(year, "click")

\* the first variant also switches on mouseenter
YearButtonHover(year) == build = "gaze" /\ YearButtonHandler(year, "hover")

\* the handler of the auto-play button (in the first variant also on mouseenter)
AutoPlayButton ==
    /\ listening
    /\ Leave(toggleAutoPlay(EC), "toggle", NoArg)

\* window.oceanVR.debug.switchYear(year); resetExperience is switchYear('2000')
DebugSwitchYear(year) ==
    /\ listening
    /\ Leave(switchYear(EC, year), "switchYear", year)

\* a call of switchYear(year) in which a collaborator may throw
SwitchYear(year, fault) ==
    /\ listening
    /\ Leave(switchYear([EC EXCEPT !.fault = fault], year), "switchYear", year)

\* handleKeyboard: the keys 1, 2, 3, 4 and R call switchYear and nothing else
KeyYear(key) ==
    CASE key = "1" -> "2000"
      [] key = "2" -> "2010"
      [] key = "3" -> "2020"
      [] key = "4" -> "2050"
      [] key = "r" -> "2000"
YearKeys == {"1", "2", "3", "4", "r"}
HandleKeyboard(key) ==
    /\ listening
    /\ Leave(switchYear(EC, KeyYear(key)), "key", key)

\* previousYear() called on the controller
PreviousYear ==
    /\ listening
    /\ Leave(previousYear(EC), "previousYear", NoArg)

\* a due interval timer fires: nextYear(), and the timer is armed again
AutoPlayTick(id) ==
    /\ id \in DOMAIN intervals
    /\ intervals[id] = 0
    /\ LET e == nextYear(EC)
       IN  /\ currentYear' = e.currentYear
           /\ earthVisible' = e.earthVisible
           /\ sphereRotation' = e.sphereRotation
           /\ intervals' = [intervals EXCEPT ![id] = autoPlayInterval]
           /\ ticksSinceReset' = IF sinceReset # WindowOver THEN ticksSinceReset + 1
                                 ELSE ticksSinceReset
           /\ lastEarthOp' = <<"tick", NoArg>>
           /\ UNCHANGED <<build, autoPlay, autoPlayTimer, spheresBound, listening,
                          sinceReset, sceneVars, rotVars, audioVars, pageVars, gazeVars, loadVars>>

Min(a, b) == IF a < b THEN a ELSE b

\* the time until the next timer is due, at most one time step
Delay ==
    LET due == {intervals[i] : i \in DOMAIN intervals}
    IN  IF due = {} THEN TimeStep
        ELSE Min(TimeStep, CHOOSE d \in due : \A x \in due : d <= x)

\* time passes, up to the next due timer; a due timer fires before time moves on
Advance ==
    /\ \A i \in DOMAIN intervals : intervals[i] > 0
    /\ intervals' = [i \in DOMAIN intervals |-> intervals[i] - Delay]
    /\ sinceReset' = IF sinceReset + Delay > autoPlayInterval
                     THEN WindowOver ELSE sinceReset + Delay
    /\ ticksSinceReset' = IF sinceReset' = WindowOver THEN 0 ELSE ticksSinceReset
    /\ lastEarthOp' = <<"advance", NoArg>>
    /\ UNCHANGED <<build, currentYear, autoPlay, autoPlayTimer, earthVisible,
                   sphereRotation, spheresBound, listening, sceneVars, rotVars,
                   audioVars, pageVars, gazeVars, loadVars>>

---------------------------------------------------------------------------
(* EarthController: drag rotation and inertia                              *)

\* Angles and velocities are fixed-point numbers: AngleScale units per degree,
\* so that one unit is the stop threshold 0.01; a quotient or a product that
\* is no whole number of units is cut off toward zero.
AngleScale == 100
Abs(a) == IF a < 0 THEN -a ELSE a
Max(a, b) == IF a > b THEN a ELSE b
Trunc(a, b) == IF a >= 0 THEN a \div b ELSE -((-a) \div b)

\* rotationSpeed = 0.5 degrees per pixel
rotationSpeed == AngleScale \div 2
\* damping = 0.96, in percent
dampingPercent == 96
\* minVelocity = 0.01
minVelocity == AngleScale \div 100
\* the pitch limit of the first variant, in degrees
MaxPitch == 90

NoFrame == NoTimer
Zero == [x |-> 0, y |-> 0]

\* the client coordinates pointer events are exercised with
PointerCoords == {0, 200}
Positions == [x : PointerCoords, y : PointerCoords]
\* the elements a pointer goes down on: the canvas, or a UI control
Targets == {"canvas", "year-btn"}
\* e.touches.length
TouchCounts == {1, 2}
\* the ms between two moves (now - lastMoveTime)
DeltaTimes == {0, 20000}
\* the number of drag moves explored
MaxMoves == 2

\* the yaw after a move by deltaX pixels: no clamp
YawAfter_Clamped(yaw, deltaX) ==
    Max(-MaxPitch * AngleScale, IF yaw + deltaX * rotationSpeed > MaxPitch * AngleScale
                                THEN MaxPitch * AngleScale
                                ELSE yaw + deltaX * rotationSpeed)
YawAfter(yaw, deltaX) == yaw + deltaX * rotationSpeed

\* Math.max(-90, Math.min(90, x))
Clamp(pitch) ==
    Max(-MaxPitch * AngleScale, IF pitch > MaxPitch * AngleScale
                                THEN MaxPitch * AngleScale ELSE pitch)

\* the pitch after a move by deltaY pixels: the first variant clamps it, the
\* later one does not
PitchAfter(pitch, deltaY) ==
    IF build = "gaze" THEN Clamp(pitch - deltaY * rotationSpeed)
    ELSE pitch - deltaY * rotationSpeed

\* velocity.x *= damping
Damp(v) == Trunc(v * dampingPercent, 100)

\* rot / Math.max(deltaTime, 1) * 10
VelocityOf(rot, deltaTime) == Trunc(rot * 10, Max(deltaTime, 1))

\* the later variant writes the rotation to every visible sphere of
\* this.earthSpheres and to every hotspot of this.hotspots; the first variant
\* writes it to the container
ApplyRotation(r) ==
    IF build = "gaze"
    THEN /\ containerRotation' = r
         /\ UNCHANGED <<sphereRotation, hotspotRotation>>
    ELSE /\ sphereRotation' = [y \in Years |->
                IF spheresBound /\ earthVisible[y] THEN r ELSE sphereRotation[y]]
         /\ hotspotRotation' = IF spheresBound THEN r ELSE hotspotRotation
         /\ UNCHANGED containerRotation

\* requestAnimationFrame: the id of the new frame (ids are opaque: the least one free)
FreshFrame(pending) ==
    CHOOSE id \in 1..(Cardinality(pending) + 2) :
        /\ id \notin pending
        /\ id # inertiaAnimationId
        /\ \A j \in 1..(id - 1) : j \in pending \/ j = inertiaAnimationId

\* the year and auto-play state a pointer or frame handler leaves alone
RotFrame(op) ==
    /\ lastRotOp' = op
    /\ op # "down" => UNCHANGED downTarget
    /\ UNCHANGED <<build, currentYear, autoPlay, autoPlayTimer, intervals, earthVisible,
                   spheresBound, listening, sinceReset, ticksSinceReset, lastEarthOp,
                   sceneVars, audioVars, pageVars, gazeVars, loadVars>>

\* applyInertia(), with the frames still pending when it runs
applyInertia_NoStop(dragging, pending) ==
    LET moving == ~dragging /\ (Abs(velocity.x) > minVelocity \/ Abs(velocity.y) > minVelocity)
        r == IF moving
             THEN [x |-> globeRotation.x + velocity.x, y |-> globeRotation.y + velocity.y]
             ELSE globeRotation
        id == FreshFrame(pending)
    IN  /\ globeRotation' = r
        /\ velocity' = [x |-> Damp(velocity.x), y |-> Damp(velocity.y)]
        /\ ApplyRotation(r)
        /\ frames' = pending \cup {id}
        /\ inertiaAnimationId' = id
applyInertia(dragging, pending) ==
    IF ~dragging /\ (Abs(velocity.x) > minVelocity \/ Abs(velocity.y) > minVelocity)
    THEN LET r == [x |-> globeRotation.x + velocity.x, y |-> globeRotation.y + velocity.y]
             id == FreshFrame(pending)
         IN  /\ globeRotation' = r
             /\ velocity' = [x |-> Damp(velocity.x), y |-> Damp(velocity.y)]
             /\ ApplyRotation(r)
             /\ frames' = pending \cup {id}
             /\ inertiaAnimationId' = id
    ELSE /\ velocity' = Zero
         /\ frames' = pending
         /\ UNCHANGED <<globeRotation, inertiaAnimationId, sphereRotation,
                        hotspotRotation, containerRotation>>

\* a pending animation frame runs applyInertia
InertiaTick(id) ==
    /\ id \in frames
    /\ applyInertia(isDragging, frames \ {id})
    /\ UNCHANGED <<isDragging, previousMousePosition, moves>>
    /\ RotFrame("frame")

\* whether a pointer going down on the target starts a drag
StartsDrag(kind, target, touches) ==
    /\ kind = "touch" => touches = 1
    /\ build = "globe" => target = "canvas"
    /\ (build = "gaze" /\ kind = "mouse") => target = "canvas"

\* cancelAnimationFrame(inertiaAnimationId), if there is an id
CancelInertia_Kept == frames
CancelInertia == frames \ {inertiaAnimationId}

\* mousedown and touchstart
PointerDown(kind, target, touches, pos) ==
    /\ listening
    /\ downTarget' = target
    /\ IF StartsDrag(kind, target, touches)
       THEN /\ isDragging' = TRUE
            /\ previousMousePosition' = pos
            /\ velocity' = Zero
            /\ frames' = CancelInertia
            /\ UNCHANGED <<globeRotation, inertiaAnimationId, sphereRotation,
                           hotspotRotation, containerRotation, moves>>
       ELSE UNCHANGED <<isDragging, previousMousePosition, velocity, frames,
                        globeRotation, inertiaAnimationId, sphereRotation,
                        hotspotRotation, containerRotation, moves>>
    /\ RotFrame("down")

\* mousemove and touchmove
PointerMove(kind, touches, pos, deltaTime) ==
    /\ listening
    /\ moves < MaxMoves
    /\ IF isDragging /\ (kind = "touch" => touches = 1)
       THEN LET deltaX == pos.x - previousMousePosition.x
                deltaY == pos.y - previousMousePosition.y
                r == [x |-> PitchAfter(globeRotation.x, deltaY),
                      y |-> YawAfter(globeRotation.y, deltaX)]
            IN  /\ globeRotation' = r
                /\ velocity' = IF build = "globe" /\ deltaTime > 0
                               THEN [x |-> VelocityOf(-deltaY * rotationSpeed, deltaTime),
                                     y |-> VelocityOf(deltaX * rotationSpeed, deltaTime)]
                               ELSE velocity
                /\ ApplyRotation(r)
                /\ previousMousePosition' = pos
                /\ moves' = moves + 1
                /\ UNCHANGED <<isDragging, frames, inertiaAnimationId>>
       ELSE UNCHANGED <<isDragging, previousMousePosition, velocity, frames,
                        globeRotation, inertiaAnimationId, sphereRotation,
                        hotspotRotation, containerRotation, moves>>
    /\ RotFrame("move")

\* mouseup and touchend: the later variant starts the inertia loop
PointerUp(kind) ==
    /\ listening
    /\ IF build = "globe" /\ isDragging
       THEN /\ isDragging' = FALSE
            /\ applyInertia(FALSE, frames)
       ELSE /\ isDragging' = FALSE
            /\ UNCHANGED <<velocity, frames, globeRotation, inertiaAnimationId,
                           sphereRotation, hotspotRotation, containerRotation>>
    /\ UNCHANGED <<previousMousePosition, moves>>
    /\ RotFrame("up")

---------------------------------------------------------------------------
(* AudioController                                                         *)

\* Volumes are fixed-point numbers: VolumeScale units for the volume 1.0; a
\* product volumeStep * currentStep that is no whole number of units is cut off.
VolumeScale == 1000
\* CONFIG.audio.masterVolume = 0.7
configMasterVolume == 700
\* steps = 20
steps == 20

NoAudio == "null"
\* the audio elements of the page
AudioElements == {"audio-2000", "audio-2010", "audio-ambient"}
\* the years playSceneAudio and stopSceneAudio are exercised with
AudioYears == {"2000", "2010", UnknownYear}

\* this.audioElements[year]: the element of the year's audioId, if any
AudioOf(year) ==
    CASE year \notin SceneKeys -> NoAudio
      [] audioShared           -> "audio-ambient"
      [] year = "2000"         -> "audio-2000"
      [] year = "2010"         -> "audio-2010"
      [] OTHER                 -> NoAudio

\* the number of playSceneAudio and stopSceneAudio calls explored
MaxCalls == 2

\* no fade has finished yet
NoFade == [el |-> NoAudio, kind |-> "none", callback |-> FALSE, currentStep |-> 0,
           last |-> 0, monotone |-> TRUE, callbacks |-> 0]

\* the AudioController state an operation works on
AC == [currentAudio |-> currentAudio, volume |-> volume, paused |-> paused,
       fades |-> fades, playPromises |-> playPromises, finishedFade |-> finishedFade,
       masterVolume |-> masterVolume, transitionVolume |-> transitionVolume,
       playbackBlocked |-> playbackBlocked, requested |-> requested]

\* audioEl.pause(): the element's unsettled play() promises are rejected
Pause(a, el) ==
    [a EXCEPT !.paused[el] = TRUE,
              !.playPromises = SelectSeq(@, LAMBDA q : q.el # el)]

\* fadeIn(audioEl): the volume is set to 0 and a timer is started
fadeIn(a, el) ==
    [a EXCEPT !.volume[el] = 0,
              !.fades = Append(@, [el |-> el, kind |-> "in", from |-> 0,
                                   target |-> a.masterVolume, currentStep |-> 0,
                                   callback |-> FALSE, last |-> 0,
                                   monotone |-> TRUE])]

\* fadeOut(audioEl, callback): a timer is started from the volume of the moment
fadeOut(a, el, callback) ==
    [a EXCEPT !.fades = Append(@, [el |-> el, kind |-> "out", from |-> a.volume[el],
                                   target |-> 0, currentStep |-> 0,
                                   callback |-> callback, last |-> a.volume[el],
                                   monotone |-> TRUE])]

\* Math.min(volumeStep * currentStep, targetVolume), volumeStep = targetVolume / steps
FadeInVolume(target, currentStep) ==
    Min((target * currentStep) \div steps, target)

\* Math.max(startVolume - volumeStep * currentStep, 0), volumeStep = startVolume / steps
FadeOutVolume_Rising(from, currentStep) ==
    Min(from + (from * currentStep) \div steps, VolumeScale)
FadeOutVolume(from, currentStep) ==
    Max(from - (from * currentStep) \div steps, 0)

\* whether the values a fade writes still go one way: w follows f.last
Monotone(f, w) ==
    f.monotone /\ (IF f.kind = "in" THEN w >= f.last ELSE w <= f.last)

\* the interval callback of the fade timer that is due: timers of one period
\* fire in the order they were started, so the due timer is the first and a
\* timer that stays alive goes to the end.  Each timer carries the last value
\* it wrote and whether its values went one way so far.
FadeTimer(a) ==
    LET f == Head(a.fades)
        k == f.currentStep + 1
        v == IF f.kind = "in" THEN FadeInVolume(f.target, k) ELSE FadeOutVolume(f.from, k)
        over == IF f.kind = "in" THEN k >= steps ELSE k >= steps \/ v <= 0
        ticked == [f EXCEPT !.currentStep = k, !.last = v, !.monotone = Monotone(f, v)]
    IN  IF ~over
        THEN [a EXCEPT !.volume[f.el] = v,
                       !.fades = Append(Tail(@), ticked)]
        ELSE LET done == [el |-> f.el, kind |-> f.kind, callback |-> f.callback,
                          currentStep |-> k,
                          last |-> f.target,
                          monotone |-> Monotone(ticked, f.target),
                          callbacks |-> IF f.callback THEN 1 ELSE 0]
                 cleared == [a EXCEPT !.volume[f.el] = f.target,
                                      !.fades = Tail(@),
                                      !.finishedFade = done]
             IN  IF f.callback THEN Pause(cleared, f.el) ELSE cleared

\* playSceneAudio(year), for a year that has an element
playSceneAudio(a, el) ==
    LET faded == IF a.currentAudio # NoAudio /\ a.currentAudio # el
                 THEN fadeOut(a, a.currentAudio, FALSE)
                 ELSE a
    IN  [faded EXCEPT !.currentAudio = el,
                      !.paused[el] = FALSE,
                      !.playPromises = Append(@, [el |-> el, blockable |-> a.paused[el]]),
                      !.requested[el] = IF @ = "stop" THEN "play after stop" ELSE "play"]

\* stopSceneAudio(year), for a year that has an element
stopSceneAudio(a, el) == [fadeOut(a, el, TRUE) EXCEPT !.requested[el] = "stop"]

\* the play() promise of an element is fulfilled
Fulfilled(a, el) ==
    [a EXCEPT !.requested[el] = IF @ = "play after stop" THEN "playing after stop" ELSE @]

\* write the state an operation leaves
AudioWrite(a) ==
    /\ currentAudio' = a.currentAudio
    /\ volume' = a.volume
    /\ paused' = a.paused
    /\ fades' = a.fades
    /\ playPromises' = a.playPromises
    /\ finishedFade' = a.finishedFade
    /\ masterVolume' = a.masterVolume
    /\ transitionVolume' = a.transitionVolume
    /\ playbackBlocked' = a.playbackBlocked
    /\ requested' = a.requested
    /\ UNCHANGED audioShared

\* an operation of the controller leaves the other controllers alone
AudioLeave(a) ==
    /\ AudioWrite(a)
    /\ UNCHANGED <<sceneVars, earthVars, rotVars, pageVars, gazeVars, loadVars>>

\* this.masterVolume * 0.8, the level of the transition cue
TransitionLevel(master) == (master * 8) \div 10

\* the elements this.audioElements holds after setup(): the element of every
\* year's audioId
Registered ==
    IF ~isInitialized THEN {}
    ELSE IF audioShared THEN {"audio-ambient"}
    ELSE {"audio-2000", "audio-2010"}

\* setup(): register the elements at volume 0 and set the level of the
\* transition cue; the page runs it once, when it loads
AudioSetup ==
    /\ ~isInitialized
    /\ ~cleanedUp
    /\ isInitialized' = TRUE
    /\ UNCHANGED <<audioCalls, mixerCalls, lastMixerOp, mPresses>>
    /\ AudioLeave([AC EXCEPT !.transitionVolume = TransitionLevel(masterVolume)])

\* a call of playSceneAudio(year)
PlaySceneAudio(year) ==
    /\ isInitialized
    /\ audioCalls < MaxCalls
    /\ audioCalls' = audioCalls + 1
    /\ UNCHANGED <<isInitialized, mixerCalls, lastMixerOp, mPresses>>
    /\ AudioLeave(IF AudioOf(year) = NoAudio THEN AC ELSE playSceneAudio(AC, AudioOf(year)))

\* a call of stopSceneAudio(year)
StopSceneAudio(year) ==
    /\ isInitialized
    /\ audioCalls < MaxCalls
    /\ audioCalls' = audioCalls + 1
    /\ UNCHANGED <<isInitialized, mixerCalls, lastMixerOp, mPresses>>
    /\ AudioLeave(IF AudioOf(year) = NoAudio THEN AC ELSE stopSceneAudio(AC, AudioOf(year)))

\* a play() promise is fulfilled: fadeIn(audioEl)
PlayResolve(i) ==
    /\ i \in 1..Len(playPromises)
    /\ UNCHANGED <<isInitialized, audioCalls, mixerCalls, lastMixerOp, mPresses>>
    /\ AudioLeave(fadeIn(Fulfilled([AC EXCEPT !.playPromises = Without(@, i)],
                                    playPromises[i].el),
                          playPromises[i].el))

\* a play() promise is rejected by the platform: the element stays paused
PlayReject_StartsFade(i) ==
    /\ i \in 1..Len(playPromises)
    /\ playPromises[i].blockable
    /\ UNCHANGED <<isInitialized, audioCalls, mixerCalls, lastMixerOp, mPresses>>
    /\ AudioLeave(fadeIn([AC EXCEPT !.playPromises = Without(@, i),
                                    !.playbackBlocked = @ + 1], playPromises[i].el))
PlayReject(i) ==
    /\ i \in 1..Len(playPromises)
    /\ playPromises[i].blockable
    /\ UNCHANGED <<isInitialized, audioCalls, mixerCalls, lastMixerOp, mPresses>>
    /\ AudioLeave([AC EXCEPT !.playPromises = Without(@, i),
                             !.paused[playPromises[i].el] = TRUE,
                             !.playbackBlocked = @ + 1])

\* the fade timer that is due fires
FadeTick ==
    /\ fades # <<>>
    /\ UNCHANGED <<isInitialized, audioCalls, mixerCalls, lastMixerOp, mPresses>>
    /\ AudioLeave(FadeTimer(AC))

\* the volumes setMasterVolume is exercised with (in thousandths)
MasterVolumes == {0, 300, 1500}

\* the number of muteAll, unmuteAll and setMasterVolume calls explored
MaxMixerCalls == 2

\* muteAll(): every registered element and the transition cue to 0
muteAll(a) ==
    [a EXCEPT !.volume = [el \in AudioElements |->
                              IF el \in Registered THEN 0 ELSE a.volume[el]],
              !.transitionVolume = IF isInitialized THEN 0 ELSE @]

\* unmuteAll(): the current element to masterVolume, the cue to 0.8 of it
unmuteAll_CueAtMaster(a) ==
    [a EXCEPT !.volume = IF a.currentAudio # NoAudio
                         THEN [@ EXCEPT ![a.currentAudio] = a.masterVolume]
                         ELSE @,
              !.transitionVolume = IF isInitialized THEN a.masterVolume ELSE @]
unmuteAll(a) ==
    [a EXCEPT !.volume = IF a.currentAudio # NoAudio
                         THEN [@ EXCEPT ![a.currentAudio] = a.masterVolume]
                         ELSE @,
              !.transitionVolume = IF isInitialized
                                   THEN TransitionLevel(a.masterVolume) ELSE @]

\* setMasterVolume(volume): clamp to [0, 1], and set the current element to it
setMasterVolume(a, v) ==
    LET clamped == Max(0, Min(VolumeScale, v))
    IN  [a EXCEPT !.masterVolume = clamped,
                  !.volume = IF a.currentAudio # NoAudio
                             THEN [@ EXCEPT ![a.currentAudio] = clamped]
                             ELSE @]

\* a call of one of the three, by the page or from the console
MixerCall(a, op, presses) ==
    /\ mixerCalls < MaxMixerCalls
    /\ mixerCalls' = mixerCalls + 1
    /\ lastMixerOp' = op
    /\ mPresses' = presses
    /\ UNCHANGED <<isInitialized, audioCalls>>
    /\ AudioLeave(a)

\* the tab is hidden, or debug.muteAudio()
MuteAll == MixerCall(muteAll(AC), "muteAll", mPresses)

\* the tab is shown again, or debug.unmuteAudio()
UnmuteAll == MixerCall(unmuteAll(AC), "unmuteAll", mPresses)

\* setMasterVolume(v) called on the controller
SetMasterVolume(v) == MixerCall(setMasterVolume(AC, v), "setMasterVolume", mPresses)

\* handleKeyboard, key M: mute when masterVolume > 0, else unmute
MuteKey ==
    IF masterVolume > 0
    THEN MixerCall(muteAll(AC), "muteAll", mPresses + 1)
    ELSE MixerCall(unmuteAll(AC), "unmuteAll", mPresses + 1)

\* stopAll(): pause and silence every registered element
stopAll(a) ==
    [a EXCEPT !.paused = [el \in AudioElements |->
                              IF el \in Registered THEN TRUE ELSE a.paused[el]],
              !.playPromises = SelectSeq(@, LAMBDA q : q.el \notin Registered),
              !.volume = [el \in AudioElements |->
                              IF el \in Registered THEN 0 ELSE a.volume[el]],
              !.currentAudio = NoAudio]

\* AudioController.cleanup(): stopAll(), and the elements are let go
audioCleanup(a) == stopAll(a)

---------------------------------------------------------------------------
(* UIManager: subtitles                                                    *)

\* CONFIG.accessibility.subtitleDuration, in ms
subtitleDuration == 5000

\* the cue times of CONFIG.scenes[year].subtitles, in ms
CueTimes(year) ==
    CASE year = "2000" -> <<0, 5000, 10000>>
      [] year = "2010" -> <<0, 5000, 10000>>
      [] year = "2020" -> <<0, 5000, 10000, 15000>>
      [] year = "2050" -> <<0, 5000, 10000, 15000, 20000>>
      [] OTHER         -> <<>>

\* the delay and the duration of the welcome message of startExperience, in ms
welcomeDelay == 2000
welcomeDuration == 5000

\* the years startSubtitles is exercised with
SubtitleYears == {"2000", "2010", UnknownYear}

\* the number of startSubtitles and showSubtitle calls from outside explored
MaxUiCalls == 2

NoText == <<NoArg, 0>>
\* the text debug.showSubtitle is exercised with
MessageText == <<"message", 0>>
\* the welcome message
WelcomeText == <<"welcome", 0>>

\* the UIManager state an operation works on
UI == [uiTimers |-> uiTimers, subtitleText |-> subtitleText,
       subtitleHidden |-> subtitleHidden, currentSubtitles |-> currentSubtitles]

\* hideSubtitle()
hideSubtitle(u) == [u EXCEPT !.subtitleHidden = TRUE]

\* clearSubtitles(): every timer of this.subtitleTimers is cleared, which are
\* the cue timers; the display is hidden
clearSubtitles_TimersKept(u) == hideSubtitle(u)
clearSubtitles(u) ==
    hideSubtitle([u EXCEPT !.uiTimers = SelectSeq(@, LAMBDA tm : tm.kind # "cue")])

\* showSubtitle(text, duration): show the text and start an auto-hide timer,
\* of which no handle is kept
showSubtitle(u, text, duration) ==
    [u EXCEPT !.subtitleText = text,
              !.subtitleHidden = FALSE,
              !.uiTimers = Append(@, [kind |-> "hide", due |-> duration, text |-> text])]

\* the cue timers of a scene, in the order startSubtitles creates them
CueTimers(year) ==
    [i \in 1..Len(CueTimes(year)) |->
        [kind |-> "cue", due |-> CueTimes(year)[i], text |-> <<year, i>>]]

\* startSubtitles(year)
startSubtitles(u, year) ==
    IF CueTimes(year) = <<>> THEN u
    ELSE [clearSubtitles(u) EXCEPT !.uiTimers = @ \o CueTimers(year),
                                   !.currentSubtitles = year]

\* the timers that are due fire in the order they were created: the index of
\* the first one, 0 if none is due
FirstDue(timers) ==
    IF \E i \in 1..Len(timers) : timers[i].due = 0
    THEN CHOOSE i \in 1..Len(timers) :
             /\ timers[i].due = 0
             /\ \A j \in 1..(i - 1) : timers[j].due # 0
    ELSE 0

\* the callback of timer i: a cue shows its text, the welcome timer shows the
\* welcome message, an auto-hide hides the display
TimerCallback(u, i) ==
    LET tm == u.uiTimers[i]
        rest == [u EXCEPT !.uiTimers = Without(@, i)]
    IN  CASE tm.kind = "cue"     -> showSubtitle(rest, tm.text, subtitleDuration)
          [] tm.kind = "message" -> showSubtitle(rest, tm.text, welcomeDuration)
          [] OTHER               -> hideSubtitle(rest)

\* UIManager.cleanup()
uiCleanup(u) == [clearSubtitles(u) EXCEPT !.currentSubtitles = NoArg]

\* write the state an operation leaves
UiWrite(u) ==
    /\ uiTimers' = u.uiTimers
    /\ subtitleText' = u.subtitleText
    /\ subtitleHidden' = u.subtitleHidden
    /\ currentSubtitles' = u.currentSubtitles

\* an operation of the manager leaves the other controllers alone
UiLeave(u) ==
    /\ UiWrite(u)
    /\ UNCHANGED <<isReady, cleanedUp, sceneVars, earthVars, rotVars, audioVars,
                   gazeVars, loadVars>>

\* a call of startSubtitles(year): by startExperience and by a transition
StartSubtitles(year) ==
    /\ uiCalls < MaxUiCalls
    /\ uiCalls' = uiCalls + 1
    /\ UiLeave(startSubtitles(UI, year))

\* debug.showSubtitle(text): showSubtitle(text, 5000)
ShowSubtitle ==
    /\ uiCalls < MaxUiCalls
    /\ uiCalls' = uiCalls + 1
    /\ UiLeave(showSubtitle(UI, MessageText, 5000))

\* the subtitle timer that is due fires
UiTimerFire ==
    /\ FirstDue(uiTimers) # 0
    /\ UNCHANGED uiCalls
    /\ UiLeave(TimerCallback(UI, FirstDue(uiTimers)))

\* the time until the next subtitle timer is due
NextDue(timers) ==
    CHOOSE d \in {timers[i].due : i \in 1..Len(timers)} :
        \A i \in 1..Len(timers) : d <= timers[i].due

\* time passes, up to the next due subtitle timer
UiAdvance ==
    /\ uiTimers # <<>>
    /\ FirstDue(uiTimers) = 0
    /\ UNCHANGED uiCalls
    /\ UiLeave([UI EXCEPT !.uiTimers =
                    [i \in 1..Len(uiTimers) |->
                        [uiTimers[i] EXCEPT !.due = @ - NextDue(uiTimers)]]])

\* the subtitle display: scenes starting their cue lists, messages of the
\* debug console, and the timers
SubtitleNext ==
    \/ \E year \in SubtitleYears : StartSubtitles(year)
    \/ ShowSubtitle
    \/ UiTimerFire
    \/ UiAdvance

---------------------------------------------------------------------------
(* The page                                                                *)

\* the number of children of a-assets explored
MaxAssets == 2

\* startExperience(): the audio and the subtitles of the first scene start,
\* and a timer is started that shows the welcome message
startExperience ==
    /\ isReady' = TRUE
    /\ starts' = starts + 1
    /\ AudioWrite(IF isInitialized THEN playSceneAudio(AC, AudioOf(YearOrder[1])) ELSE AC)
    /\ UiWrite([startSubtitles(UI, YearOrder[1]) EXCEPT
                    !.uiTimers = Append(@, [kind |-> "message", due |-> welcomeDelay,
                                            text |-> WelcomeText])])
    /\ UNCHANGED <<isInitialized, audioCalls, mixerCalls, lastMixerOp, mPresses,
                   uiCalls, cleanedUp, sceneVars, earthVars, rotVars, gazeVars>>

\* the page's own state, left alone
PageIdle ==
    UNCHANGED <<isReady, starts, sceneVars, earthVars, rotVars, audioVars, gazeVars,
                uiTimers, subtitleText, subtitleHidden, currentSubtitles, uiCalls,
                cleanedUp>>

\* onSceneLoaded(): trackAssetLoading() registers the asset listeners, or
\* sets app.assetsLoaded when there is no a-assets element; startExperience()
\* runs at once when app.assetsLoaded is set
OnSceneLoaded ==
    /\ ~tracking
    /\ ~cleanedUp
    /\ tracking' = TRUE
    /\ assetsLoaded' = (assetsLoaded \/ ~assetsElement)
    /\ IF assetsLoaded' THEN startExperience ELSE PageIdle
    /\ UNCHANGED <<assetsElement, totalAssets, reported, loadedAssets, startTimers>>

\* onAssetsLoaded(): setTimeout(startExperience, 500)
onAssetsLoaded == startTimers' = startTimers + 1

\* an asset fires 'loaded' or 'error'; the listener, once registered, counts
\* it and calls onAssetsLoaded() at the last one
AssetEvent(kind) ==
    /\ assetsElement
    /\ ~cleanedUp
    /\ reported < totalAssets
    /\ reported' = reported + 1
    /\ IF tracking
       THEN /\ loadedAssets' = loadedAssets + 1
            /\ IF loadedAssets' = totalAssets
               THEN assetsLoaded' = TRUE /\ onAssetsLoaded
               ELSE UNCHANGED <<assetsLoaded, startTimers>>
       ELSE UNCHANGED <<loadedAssets, assetsLoaded, startTimers>>
    /\ PageIdle
    /\ UNCHANGED <<assetsElement, totalAssets, tracking>>

\* the timer of onAssetsLoaded fires: startExperience()
StartExperience ==
    /\ startTimers > 0
    /\ ~cleanedUp
    /\ startTimers' = startTimers - 1
    /\ startExperience
    /\ UNCHANGED <<assetsElement, totalAssets, reported, loadedAssets, assetsLoaded,
                   tracking>>

\* the page's cleanup routine (beforeunload): the cleanup of the audio
\* controller, the UI manager, the animation controller (which holds no
\* timer) and the Earth controller
Cleanup ==
    /\ listening
    /\ LeaveEarth(cleanup(EC), "cleanup", NoArg)
    /\ AudioWrite(audioCleanup(AC))
    /\ isInitialized' = FALSE
    /\ UiWrite(uiCleanup(UI))
    /\ cleanedUp' = TRUE
    /\ UNCHANGED <<sceneVars, rotVars, audioCalls, mixerCalls, lastMixerOp, mPresses,
                   uiCalls, isReady, gazeVars, loadVars>>

---------------------------------------------------------------------------
(* Initial state and specifications                                        *)

SceneInit ==
    /\ currentScene = "2000"
    /\ isTransitioning = FALSE
    /\ sceneVisible = [y \in SceneKeys |-> y = "2000"]
    /\ fadeOverlay \in BOOLEAN
    /\ overlayVisible = FALSE
    /\ flights = <<>>
    /\ calls = <<>>
    /\ sceneLog = "init"
    /\ resolved = None
    /\ resetAt = NoArg

\* the constructor.  The later variant initialises autoPlay from the
\* identifier True, which the script does not define: the flag is whatever
\* the page binds to that name.
EarthInit ==
    /\ build \in {"gaze", "globe"}
    /\ currentYear = "2000"
    /\ autoPlay \in (IF build = "gaze" THEN {TRUE} ELSE BOOLEAN)
    /\ autoPlayTimer = NoTimer
    /\ intervals = <<>>
    /\ earthVisible = [y \in Years |-> y = "2000"]
    /\ sphereRotation = [y \in Years |-> Zero]
    /\ spheresBound = FALSE
    /\ listening = FALSE
    /\ sinceReset = WindowOver
    /\ ticksSinceReset = 0
    /\ lastEarthOp = <<"constructor", NoArg>>

\* setupGlobeRotation / setupEarthRotation: the closure state; the elements
\* start with A-Frame's default rotation
RotInit ==
    /\ globeRotation = Zero
    /\ isDragging = FALSE
    /\ previousMousePosition = Zero
    /\ velocity = Zero
    /\ frames = {}
    /\ inertiaAnimationId = NoFrame
    /\ hotspotRotation = Zero
    /\ containerRotation = Zero
    /\ moves = 0
    /\ lastRotOp = "none"
    /\ downTarget = "none"

\* the AudioController constructor; the scene table either names an audio
\* element per year or the same one for every year
AudioInit ==
    /\ isInitialized = FALSE
    /\ audioShared \in BOOLEAN
    /\ currentAudio = NoAudio
    /\ masterVolume = configMasterVolume
    /\ volume = [el \in AudioElements |-> 0]
    /\ paused = [el \in AudioElements |-> TRUE]
    /\ fades = <<>>
    /\ playPromises = <<>>
    /\ finishedFade = NoFade
    /\ playbackBlocked = 0
    /\ audioCalls = 0
    /\ transitionVolume = VolumeScale
    /\ mixerCalls = 0
    /\ lastMixerOp = "none"
    /\ mPresses = 0
    /\ requested = [el \in AudioElements |-> "none"]

\* the UIManager constructor; the subtitle display starts hidden
\* the GazeController constructor
GazeInit ==
    /\ isGazing = FALSE
    /\ gazeTarget = NoArg
    /\ gazeStartTime = 0
    /\ lastGazeOp = <<"none", NoArg, 0>>

\* the page before the scene has loaded: with or without an a-assets
\* element, which has any number of children
LoadInit ==
    /\ assetsElement \in BOOLEAN
    /\ totalAssets \in (IF assetsElement THEN 0..MaxAssets ELSE {0})
    /\ reported = 0
    /\ loadedAssets = 0
    /\ assetsLoaded = FALSE
    /\ tracking = FALSE
    /\ startTimers = 0
    /\ starts = 0

\* the page when its one asset has loaded: the timer of onAssetsLoaded is
\* pending
LoadedInit ==
    /\ assetsElement = TRUE
    /\ totalAssets = 1
    /\ reported = 1
    /\ loadedAssets = 1
    /\ assetsLoaded = TRUE
    /\ tracking = TRUE
    /\ startTimers = 1
    /\ starts = 0

UiInit ==
    /\ uiTimers = <<>>
    /\ subtitleText = NoText
    /\ subtitleHidden = TRUE
    /\ currentSubtitles = NoArg
    /\ uiCalls = 0
    /\ isReady = FALSE
    /\ cleanedUp = FALSE

\* the scene manager on its own: the other controllers stay as constructed
ControllersInit ==
    SceneInit /\ EarthInit /\ RotInit /\ AudioInit /\ UiInit /\ GazeInit
SceneOnlyInit == ControllersInit /\ LoadedInit /\ build = "gaze" /\ audioShared

\* the Earth controller on its own: the other controllers stay as constructed
EarthOnlyInit ==
    ControllersInit /\ LoadedInit /\ fadeOverlay /\ audioShared

\* the audio controller on its own: the other controllers stay as constructed
AudioOnlyInit ==
    ControllersInit /\ LoadedInit /\ fadeOverlay /\ build = "gaze"

SceneNext(injected) ==
    \/ \E t \in SceneArgs, fault \in Faults(injected) : SwitchScene(t, fault)
    \/ \E i \in 1..Len(flights), fault \in Faults(injected) : SceneTimer(i, fault)

SceneStep == SceneNext(FALSE)

\* the scene manager with the R key and the debug console's resetExperience
ResetNext == SceneStep \/ Reset(NoFault)
SceneFaultStep == SceneNext(TRUE)

EarthNext ==
    \/ Setup
    \/ \E y \in Years : YearButtonClick(y)
    \/ \E y \in Years : YearButtonHover(y)
    \/ AutoPlayButton
    \/ \E y \in YearArgs : DebugSwitchYear(y)
    \/ \E key \in YearKeys : HandleKeyboard(key)
    \/ PreviousYear
    \/ Cleanup
    \/ \E id \in DOMAIN intervals : AutoPlayTick(id)
    \/ Advance

\* year switching with collaborators that may throw
EarthFaultNext ==
    \/ Setup
    \/ \E y \in Years, fault \in UiFaults \cup {NoFault} : SwitchYear(y, fault)
    \/ PreviousYear
    \/ \E id \in DOMAIN intervals : AutoPlayTick(id)
    \/ Advance

PointerKinds == {"mouse", "touch"}

\* the pointer and frame handlers
RotationNext ==
    \/ Setup
    \/ \E k \in PointerKinds, tg \in Targets, n \in TouchCounts, pos \in Positions :
           PointerDown(k, tg, n, pos)
    \/ \E k \in PointerKinds, n \in TouchCounts, pos \in Positions, dt \in DeltaTimes :
           PointerMove(k, n, pos, dt)
    \/ \E k \in PointerKinds : PointerUp(k)
    \/ \E id \in frames : InertiaTick(id)

AudioNext ==
    \/ AudioSetup
    \/ \E y \in AudioYears : PlaySceneAudio(y)
    \/ \E y \in AudioYears : StopSceneAudio(y)
    \/ \E i \in 1..Len(playPromises) : PlayResolve(i)
    \/ \E i \in 1..Len(playPromises) : PlayReject(i)
    \/ FadeTick

\* the audio controller with the mute operations and the master volume
MixerNext ==
    \/ AudioNext
    \/ MuteAll
    \/ UnmuteAll
    \/ \E v \in MasterVolumes : SetMasterVolume(v)
    \/ MuteKey

\* year requests to both controllers, with the auto-play timer running
RequestNext ==
    \/ SceneStep
    \/ Setup
    \/ \E y \in YearArgs : DebugSwitchYear(y)
    \/ \E key \in YearKeys : HandleKeyboard(key)
    \/ \E id \in DOMAIN intervals : AutoPlayTick(id)
    \/ Advance

\* the scene manager with collaborators that never throw
SceneSpec == SceneOnlyInit /\ [][SceneStep]_vars

\* the scene manager with collaborators of which any call may throw
SceneFaultSpec == SceneOnlyInit /\ [][SceneFaultStep]_vars

\* the Earth controller and its auto-play scheduler
EarthSpec == EarthOnlyInit /\ [][EarthNext]_vars

\* drag rotation together with year switching and the page's cleanup
\* (horizontal mouse drags on the canvas, and the first two years)
GlobePositions == {pos \in Positions : pos.y = 0}
GlobeYears == {YearOrder[1], YearOrder[2]}
GlobeNext ==
    \/ Setup
    \/ \E pos \in GlobePositions : PointerDown("mouse", "canvas", 1, pos)
    \/ \E pos \in GlobePositions, dt \in DeltaTimes : PointerMove("mouse", 1, pos, dt)
    \/ PointerUp("mouse")
    \/ \E id \in frames : InertiaTick(id)
    \/ \E y \in GlobeYears : DebugSwitchYear(y)
    \/ Cleanup

\* the page from load to unload: scene audio and subtitles of the first
\* year, a horizontal mouse drag with its inertia, and cleanup, within one
\* auto-play interval and one subtitle duration
TeardownNext ==
    \/ Setup
    \/ AudioSetup
    \/ StartExperience
    \/ \E i \in 1..Len(playPromises) : PlayResolve(i)
    \/ FadeTick
    \/ UiTimerFire
    \/ UiAdvance
    \/ PointerDown("mouse", "canvas", 1, Zero)
    \/ \E pos \in GlobePositions, dt \in DeltaTimes \ {0} : PointerMove("mouse", 1, pos, dt)
    \/ PointerUp("mouse")
    \/ \E id \in frames : InertiaTick(id)
    \/ Cleanup

\* the rotation handlers read neither the scene manager nor the auto-play flag
RotationInit == EarthOnlyInit /\ autoPlay

\* drag rotation and inertia
RotationSpec == RotationInit /\ [][RotationNext]_vars

\* drag rotation, inertia, year switching and cleanup
GlobeSpec == RotationInit /\ [][GlobeNext]_vars

\* the audio controller: scene audio, play() promises and fade timers
AudioSpec == AudioOnlyInit /\ [][AudioNext]_vars

\* the audio controller with mute, unmute and the master volume; the page's
\* scene table names one audio element for every year
MixerInit == AudioOnlyInit /\ audioShared
MixerSpec == MixerInit /\ [][MixerNext]_vars

\* the page from load to unload, with the later variant of the controller
TeardownInit == RotationInit /\ build = "globe"
TeardownSpec == TeardownInit /\ [][TeardownNext]_vars

\* the scene manager with reset()
ResetSpec == SceneOnlyInit /\ [][ResetNext]_vars

\* the gaze cursor and the scene manager
GazeNext ==
    \/ \E i \in 1..Len(flights) : SceneTimer(i, NoFault)
    \/ \E el \in Intersected, now \in ClockReadings : Fusing(el, now)
    \/ \E el \in Intersected : Click(el)
GazeSpec == SceneOnlyInit /\ [][GazeNext]_vars

\* the start-up of the page: the scene and the assets load, the experience
\* starts
LoaderNext ==
    \/ OnSceneLoaded
    \/ \E kind \in {"loaded", "error"} : AssetEvent(kind)
    \/ StartExperience
    \/ AudioSetup
    \/ \E i \in 1..Len(playPromises) : PlayResolve(i)
    \/ FadeTick
    \/ UiTimerFire
    \/ UiAdvance
LoaderInit == ControllersInit /\ LoadInit /\ fadeOverlay /\ audioShared /\ build = "globe"
LoaderSpec == LoaderInit /\ [][LoaderNext]_vars

\* the UI manager on its own
SubtitleSpec == SceneOnlyInit /\ [][SubtitleNext]_vars

\* the Earth controller with collaborators that may throw
EarthFaultSpec == EarthOnlyInit /\ [][EarthFaultNext]_vars

\* the scene manager and the Earth controller side by side
RequestSpec == EarthOnlyInit /\ [][RequestNext]_vars

\* the same, with animation frames that are delivered
RotationFairSpec ==
    RotationSpec /\ WF_vars(\E id \in frames : InertiaTick(id))

---------------------------------------------------------------------------
(* Properties of SceneManager                                              *)

\* getCurrentScene()
getCurrentScene == currentScene

IsPrefix(p, s) == Len(p) <= Len(s) /\ SubSeq(s, 1, Len(p)) = p

\* the transition the call log belongs to: the one in flight, else the last resolved
NewestTransition == IF flights # <<>> THEN flights[Len(flights)] ELSE resolved

Suspended == {"fadeOutWait", "delayWait", "fadeInWait"}

\* the commit step of the newest transition has run
CommitLogged == \E k \in 1..Len(calls) : calls[k][1] = "commit"

\* C1 as stated: when the promise of a switchScene(B) call, made while idle in
\* a valid scene A # B with B valid, resolves, currentScene is B and
\* isTransitioning is false.
C1_ResolvesAtTarget ==
    (resolved.to \in SceneKeys /\ resolved.from \in SceneKeys)
        => (resolved.scene = resolved.to /\ ~resolved.guard)

\* C1 as amended: when that promise resolves isTransitioning is false, and
\* currentScene is B unless a step before the commit threw (the start of the
\* fade-to-opaque, stopSceneAudio(A) or hiding A), in which case it is still A.
\* The state is that of the resolution for as long as the machine stays idle.
C1_ResolvesAtTargetUnlessThrown ==
    (flights = <<>> /\ resolved.to \in SceneKeys /\ resolved.from \in SceneKeys)
        => /\ ~resolved.guard
           /\ ~isTransitioning
           /\ currentScene = resolved.scene
           /\ resolved.scene = IF CommitLogged THEN resolved.to ELSE resolved.from
           /\ ~resolved.threw => resolved.scene = resolved.to

\* C1 witness: the promise of a transition 2000 -> 2020 has resolved
C1_Witness ==
    /\ resolved.to = "2020"
    /\ resolved.from = "2000"
    /\ ~resolved.threw
    /\ currentScene = "2020"
    /\ ~isTransitioning
    /\ flights = <<>>

\* C2: at most one switchScene side-effect sequence is in flight; the guard is
\* set at every suspension point; and a step taken while the guard is set that
\* is not a step of the transition in flight (a request) changes neither
\* currentScene nor any collaborator state, calls no collaborator and adds no
\* activation to run later.
C2_SingleFlight ==
    /\ [](/\ Len(flights) <= 1
          /\ \A i \in 1..Len(flights) : flights[i].pc \in Suspended => isTransitioning)
    /\ [][isTransitioning =>
            /\ Len(flights') <= Len(flights)
            /\ flights' = flights =>
                 UNCHANGED <<currentScene, isTransitioning, sceneVisible,
                             overlayVisible, calls, resolved>>]_vars

\* C2 witness: a request was turned away during the settle delay
C2_Witness ==
    /\ sceneLog = "busy"
    /\ isTransitioning
    /\ Len(flights) = 1
    /\ flights[1].pc = "delayWait"

\* C3: switchScene(t) with t not a key of the scene table leaves currentScene,
\* isTransitioning and every scene's visibility unchanged and calls no audio,
\* UI, animation or fade collaborator.
C3_InvalidTargetNoEffect ==
    [][\A t \in SceneArgs \ SceneKeys :
          SwitchScene(t, NoFault) =>
              UNCHANGED <<currentScene, isTransitioning, sceneVisible,
                          overlayVisible, flights, calls>>]_vars

\* C4: every switchScene call that sets isTransitioning clears it again,
\* whichever step throws: while the guard is set, the call that set it still
\* has a timer pending whose callback runs the sequence on to the finally block.
C4_GuardNeverStuck ==
    isTransitioning => \E i \in 1..Len(flights) : flights[i].pc \in Suspended

\* the order of side effects of a transition A -> B that section 4.1 lists
ExpectedCalls(A, B) ==
    << <<"fadeOut", NoArg>>, <<"stopSceneAudio", A>>, <<"hideScene", A>>,
       <<"commit", B>>, <<"showScene", B>>, <<"updateSceneInfo", B>>,
       <<"startSubtitles", B>>, <<"playTransition", NoArg>>, <<"delay", NoArg>>,
       <<"fadeIn", NoArg>>, <<"playSceneAudio", B>>, <<"updateWaterLevel", B>> >>

\* C5: the side effects of an accepted transition A -> B occur in the listed
\* order, each at most once: what has happened so far is always an initial part
\* of the list, up to the settle delay while that delay runs, up to the delay's
\* end during the fade-from-opaque, and the whole list once the transition has
\* completed.
C5_SideEffectOrder ==
    LET tr == NewestTransition
        expected == ExpectedCalls(tr.from, tr.to)
    IN  tr.to # NoArg =>
          /\ IsPrefix(calls, expected)
          /\ flights # <<>> =>
               CASE tr.pc = "fadeOutWait" -> calls = <<>>
                 [] tr.pc = "delayWait"   -> calls = SubSeq(expected, 1, 8)
                 [] tr.pc = "fadeInWait"  -> calls = SubSeq(expected, 1, 9)
                 [] OTHER                 -> TRUE
          /\ (flights = <<>> /\ ~tr.threw) => calls = expected

\* C5 witness: a transition 2000 -> 2010 has completed with all twelve effects
C5_Witness ==
    /\ flights = <<>>
    /\ resolved.to = "2010"
    /\ resolved.from = "2000"
    /\ ~resolved.threw
    /\ Len(calls) = 12

\* C6: during a transition A -> B, getCurrentScene() returns A throughout the
\* fade-to-opaque wait and B throughout the settle delay and the
\* fade-from-opaque wait, with isTransitioning still true.
C6_CommitAtStepFour ==
    \A i \in 1..Len(flights) :
        /\ flights[i].pc = "fadeOutWait" =>
               getCurrentScene = flights[i].from /\ isTransitioning
        /\ flights[i].pc \in {"delayWait", "fadeInWait"} =>
               getCurrentScene = flights[i].to /\ isTransitioning

\* C6 witness: the fade-from-opaque of a transition 2000 -> 2050 is running
C6_Witness ==
    /\ Len(flights) = 1
    /\ flights[1].pc = "fadeInWait"
    /\ flights[1].from = "2000"
    /\ flights[1].to = "2050"
    /\ getCurrentScene = "2050"

---------------------------------------------------------------------------
(* Properties of EarthController                                           *)

\* a step that is an auto-play tick
IsTick == lastEarthOp' = <<"tick", NoArg>> /\ intervals' # intervals

\* C7: whatever switchYear is called with, currentYear stays a member of the
\* year set {2000, 2010, 2020, 2050}.
C7_YearSetClosed == currentYear \in Years

\* C8: an auto-play tick moves currentYear to the year at index
\* (index(current) + 1) mod 4 of the ordered set, wrapping from 2050 to 2000.
C8_TickCycles ==
    [][(IsTick /\ currentYear \in Years) =>
          currentYear' = YearOrder[((IndexOf(currentYear) + 1) % 4) + 1]]_vars

\* C9: after resetAutoPlay() has run with auto-play Running, no timer (the
\* previous one included) fires before one full interval has passed, and at
\* most one tick fires within the interval-long window that follows the reset.
C9_NoDoubleFire ==
    sinceReset # WindowOver =>
        /\ ticksSinceReset <= 1
        /\ sinceReset < autoPlayInterval => ticksSinceReset = 0
        /\ ticksSinceReset = 0 =>
              \A id \in DOMAIN intervals : intervals[id] >= autoPlayInterval - sinceReset

\* C9 witness: the one tick of the window fired a full interval after the reset
C9_Witness ==
    /\ sinceReset = autoPlayInterval
    /\ ticksSinceReset = 1
    /\ lastEarthOp = <<"tick", NoArg>>

\* C10: at most one auto-play interval timer is alive.
C10_OneTimer == Cardinality(DOMAIN intervals) <= 1

\* C10 witness: a year-button click has restarted auto-play and one timer lives
C10_Witness ==
    /\ lastEarthOp[1] = "click"
    /\ autoPlay
    /\ sinceReset = 0
    /\ Cardinality(DOMAIN intervals) = 1
    /\ autoPlayTimer \in DOMAIN intervals

\* a step that is a user-driven year change: a year-button click, a keyboard
\* shortcut or the debug switchYear call, by which the year changed
IsUserYearChange ==
    /\ lastEarthOp'[1] \in {"click", "key", "switchYear"}
    /\ currentYear' # currentYear

\* auto-play is Running: the flag is set and the referenced timer is alive
Running == autoPlay /\ autoPlayTimer \in DOMAIN intervals

\* C11: while auto-play is Running, every user-driven year change destroys the
\* running interval timer and creates a fresh one, armed for a full interval.
C11_UserChangeRestartsTimer ==
    [][(IsUserYearChange /\ Running) =>
          /\ autoPlayTimer' # autoPlayTimer
          /\ autoPlayTimer \notin DOMAIN intervals'
          /\ autoPlayTimer' \in DOMAIN intervals'
          /\ intervals'[autoPlayTimer'] = autoPlayInterval]_vars

---------------------------------------------------------------------------
(* Properties of the drag rotation and the inertia loop                    *)

\* a step that is an animation frame running applyInertia
IsFrame == lastRotOp' = "frame" /\ frames \ frames' # {}

\* a step that is a pointer move applied to the rotation
IsDragMove == lastRotOp' = "move" /\ moves' = moves + 1

\* the stop threshold 0.01 of section 4.2
StopThreshold == AngleScale \div 100

\* C12: the pitch component of the rotation state lies in [-90, +90].
C12_PitchClamped == Abs(globeRotation.x) <= MaxPitch * AngleScale

\* C13: every pointer move during a drag adds 0.5 times the horizontal pixel
\* delta to the yaw, without bound, whether or not the pitch is at its limit.
C13_YawAccumulates ==
    [][IsDragMove =>
          globeRotation'.y = globeRotation.y
              + ((previousMousePosition'.x - previousMousePosition.x) * AngleScale) \div 2]_vars

\* C13 witness: a move left the pitch clamped at 90 and the yaw at 100 degrees
C13_Witness ==
    /\ lastRotOp = "move"
    /\ build = "gaze"
    /\ globeRotation.x = MaxPitch * AngleScale
    /\ globeRotation.y = 100 * AngleScale

\* C14: the inertia loop stops by itself: the frame that finds both velocity
\* components at or below the threshold schedules no further frame, zeroes
\* the velocity and leaves the rotation; with no frame pending and no drag
\* the velocity is zero; and a pending frame does not stay pending for ever.
C14_InertiaStops ==
    /\ [][(IsFrame /\ Abs(velocity.x) <= StopThreshold /\ Abs(velocity.y) <= StopThreshold)
            => (frames' = {} /\ velocity' = Zero /\ globeRotation' = globeRotation)]_vars
    /\ []((frames = {} /\ ~isDragging) => velocity = Zero)
    /\ (frames # {}) ~> (frames = {})

\* C14 witness: the loop has run all its ticks after a release and stopped
C14_Witness ==
    /\ lastRotOp = "frame"
    /\ frames = {}
    /\ velocity = Zero
    /\ globeRotation.y = 100 * AngleScale + 5 + 4 + 3 + 2

\* C15: at most one inertia frame is pending, none is pending during a drag
\* (so no inertia tick modifies the rotation of a drag), and the step that
\* starts a drag cancels the pending frame and zeroes the velocity.
C15_DragCancelsInertia ==
    /\ [](Cardinality(frames) <= 1 /\ (isDragging => frames = {}))
    /\ [][(lastRotOp' = "down" /\ ~isDragging /\ isDragging')
            => (frames' = {} /\ velocity' = Zero)]_vars

\* C15 witness: a drag has started after the first tick of an inertia loop
C15_Witness ==
    /\ lastRotOp = "down"
    /\ isDragging
    /\ frames = {}
    /\ velocity = Zero
    /\ globeRotation.y = 100 * AngleScale + 5

\* C16: each visible Earth sphere and each hotspot carries the current
\* globeRotation (in the first variant their container does).
C16_RotationApplied ==
    listening =>
        IF build = "gaze" THEN containerRotation = globeRotation
        ELSE /\ \A y \in Years : earthVisible[y] => sphereRotation[y] = globeRotation
             /\ hotspotRotation = globeRotation

\* the UI controls among the elements a pointer goes down on
UiControls == Targets \ {"canvas"}

\* C31: a mousedown or touchstart on a UI control, with no drag going on,
\* starts none (isDragging stays false), and the moves and releases after it,
\* until the next pointer-down, leave the rotation, the velocity and the
\* animation frames as they are.
C31_ControlsStartNoDrag ==
    /\ [][(lastRotOp' = "down" /\ downTarget' \in UiControls /\ ~isDragging)
            => ~isDragging']_vars
    /\ [][(downTarget \in UiControls /\ ~isDragging /\ lastRotOp' \in {"move", "up"})
            => UNCHANGED <<isDragging, globeRotation, velocity, frames,
                           inertiaAnimationId, sphereRotation, hotspotRotation,
                           containerRotation>>]_vars

---------------------------------------------------------------------------
(* Properties of AudioController                                           *)

\* C17: the volumes a fadeOut writes never increase, the last one is exactly
\* 0, the fade stops after at most 20 ticks, and its completion callback, if
\* one was given, is invoked exactly once.
C17_FadeOutMonotone ==
    /\ \A i \in 1..Len(fades) :
          fades[i].kind = "out" =>
              /\ fades[i].monotone
              /\ fades[i].last <= fades[i].from
              /\ fades[i].currentStep < steps
    /\ finishedFade.kind = "out" =>
          /\ finishedFade.monotone
          /\ finishedFade.last = 0
          /\ finishedFade.currentStep <= steps
          /\ finishedFade.callbacks = (IF finishedFade.callback THEN 1 ELSE 0)

\* C17 witness: a fade-out with a callback has run all its ticks from an
\* audible volume and has been cleared
C17_Witness ==
    /\ finishedFade.kind = "out"
    /\ finishedFade.callback
    /\ finishedFade.callbacks = 1
    /\ finishedFade.currentStep = steps
    /\ fades = <<>>

\* C18: at most one fade interval timer is alive for each channel.
C18_OneFadePerChannel ==
    \A i, j \in 1..Len(fades) : i # j => fades[i].el # fades[j].el

\* C19: once every fade timer has finished and no play() promise is
\* unsettled, only the channel that currentAudio references is above 0.
C19_OneAudibleChannel ==
    (fades = <<>> /\ playPromises = <<>>) =>
        \A el \in AudioElements : volume[el] > 0 => el = currentAudio

\* C20: from a fadeIn call until its timer is cleared the channel's volume
\* never decreases, the start of the fade included, and the fade ends after
\* exactly 20 ticks at exactly masterVolume.
C20_FadeInMonotone ==
    /\ [][\A el \in AudioElements :
            (\E i \in 1..Len(fades') : fades'[i].el = el /\ fades'[i].kind = "in")
                => volume'[el] >= volume[el]]_vars
    /\ [](finishedFade.kind = "in" =>
            (finishedFade.currentStep = steps /\ finishedFade.last = masterVolume))

\* C21: every scene channel's volume lies between 0 and the current
\* masterVolume, whatever the interleaving of the audio operations, the mute
\* operations, setMasterVolume and the fade ticks.
C21_VolumeWithinMaster ==
    \A el \in AudioElements : 0 <= volume[el] /\ volume[el] <= masterVolume

\* a step that is a call of muteAll, unmuteAll or setMasterVolume
IsMixerCall == mixerCalls' = mixerCalls + 1

\* C22: right after muteAll every registered scene channel and the transition
\* cue are at 0; right after unmuteAll the current scene channel is at
\* masterVolume and the transition cue at 0.8 of it; neither starts a fade
\* timer.
C22_MuteIsImmediate ==
    [][(IsMixerCall /\ lastMixerOp' \in {"muteAll", "unmuteAll"}) =>
          /\ fades' = fades
          /\ lastMixerOp' = "muteAll" =>
                /\ \A el \in Registered : volume'[el] = 0
                /\ isInitialized => transitionVolume' = 0
          /\ lastMixerOp' = "unmuteAll" =>
                /\ currentAudio' # NoAudio => volume'[currentAudio'] = masterVolume'
                /\ isInitialized => transitionVolume' = (masterVolume' * 8) \div 10]_vars

\* C22 witness: unmuteAll has run while a channel was current and a fade
\* timer was alive; the channel and the cue are at their levels
C22_Witness ==
    /\ lastMixerOp = "unmuteAll"
    /\ currentAudio # NoAudio
    /\ fades # <<>>
    /\ masterVolume > 0
    /\ volume[currentAudio] = masterVolume
    /\ transitionVolume = (masterVolume * 8) \div 10

\* C30: with no other mute, unmute or master-volume call in between, the
\* odd presses of M mute every channel and the even presses bring the current
\* channel back to masterVolume.
C30_MuteKeyToggles ==
    [][(mPresses' = mPresses + 1 /\ mixerCalls' = mPresses') =>
          IF mPresses' % 2 = 1
          THEN \A el \in Registered : volume'[el] = 0
          ELSE /\ lastMixerOp' = "unmuteAll"
               /\ currentAudio' # NoAudio =>
                     (volume'[currentAudio'] = masterVolume' /\ masterVolume' > 0)]_vars

C32_ResetReachesFirstScene == resetAt \in {NoArg, sceneOrder[1]}

\* C36: exactly one Earth sphere is visible, and it is the sphere of
\* currentYear, also after a call in which a collaborator threw.
C36_OneSphereVisible == \A y \in Years : earthVisible[y] <=> y = currentYear

\* C37: once setup has run, the autoPlay flag is set exactly when an
\* auto-play interval is alive, which is then the one autoPlayTimer names and
\* the only one.
C37_FlagMatchesTimer ==
    listening =>
        /\ autoPlay <=> autoPlayTimer # NoTimer
        /\ DOMAIN intervals = IF autoPlay THEN {autoPlayTimer} ELSE {}

\* auto-play is Stopped: the flag is clear and no timer is referenced
Stopped == ~autoPlay /\ autoPlayTimer = NoTimer

\* a step in which stopAutoPlay is called on a Running scheduler: by the
\* auto-play button or by cleanup
IsStopWhileRunning ==
    /\ Running
    /\ lastEarthOp' \in {<<"toggle", NoArg>>, <<"cleanup", NoArg>>}

\* C27: stopAutoPlay on a Running scheduler clears the interval, so that no
\* tick is left to fire, and leaves autoPlay false and autoPlayTimer null; on
\* a Stopped one it changes nothing; stop after stop equals stop.
C27_StopIsIdempotent ==
    /\ [][IsStopWhileRunning =>
            /\ DOMAIN intervals' = {}
            /\ ~autoPlay'
            /\ autoPlayTimer' = NoTimer]_vars
    /\ [](Running => autoPlayTimer \notin DOMAIN stopAutoPlay(EC).intervals)
    /\ [](Stopped => stopAutoPlay(EC) = EC)
    /\ [](stopAutoPlay(stopAutoPlay(EC)) = stopAutoPlay(EC))

\* C27 witness: the auto-play button has stopped the scheduler that setup
\* started, and no timer is left
C27_Witness ==
    /\ build = "gaze"
    /\ lastEarthOp = <<"toggle", NoArg>>
    /\ Stopped
    /\ DOMAIN intervals = {}

\* C28: resetAutoPlay creates a timer only when one was running: a
\* year-button click in a state with no auto-play timer alive leaves no timer
\* alive.
C28_ResetNeedsRunningTimer ==
    [][(lastEarthOp'[1] = "click" /\ DOMAIN intervals = {}) =>
          DOMAIN intervals' = {}]_vars

C24_SameYearNoOp ==
    /\ [](~isTransitioning => Rejection(SM, currentScene) = "already")
    /\ [](switchYear(EC, currentYear) = EC)
    /\ [][/\ (sceneLog' = "already" /\ ~isTransitioning) =>
               UNCHANGED <<currentScene, isTransitioning, sceneVisible, overlayVisible,
                           flights, calls, resolved>>
         /\ (\/ lastEarthOp' = <<"switchYear", currentYear>>
             \/ \E key \in YearKeys :
                    lastEarthOp' = <<"key", key>> /\ KeyYear(key) = currentYear) =>
               UNCHANGED <<currentYear, autoPlay, autoPlayTimer, intervals, earthVisible,
                           sphereRotation, spheresBound, rotVars, audioVars, pageVars, gazeVars, loadVars>>]_vars

\* C24 witness: both controllers were asked for the year they are in, the
\* scene manager after a transition and the Earth controller with its timer
\* part-way through an interval
C24_Witness ==
    /\ sceneLog = "already"
    /\ currentScene # "2000"
    /\ ~isTransitioning
    /\ lastEarthOp = <<"switchYear", currentYear>>
    /\ Running
    /\ intervals[autoPlayTimer] < autoPlayInterval

\* C26: when the platform rejects the play() of playSceneAudio(Y), no fade
\* timer is started, no volume is changed and the scene manager is not
\* disturbed; and every fade-in that a later, successful play() starts ends
\* with its channel at masterVolume.
C26_BlockedPlaybackIsHarmless ==
    /\ [][playbackBlocked' = playbackBlocked + 1 =>
            /\ fades' = fades
            /\ volume' = volume
            /\ currentAudio' = currentAudio
            /\ UNCHANGED sceneVars]_vars
    /\ [][(finishedFade' # finishedFade /\ finishedFade'.kind = "in") =>
            volume'[finishedFade'.el] = masterVolume']_vars

\* C26 witness: a play() on the current channel was rejected, a later one
\* succeeded and its fade-in has brought the channel to masterVolume
C26_Witness ==
    /\ playbackBlocked = 1
    /\ audioCalls = 2
    /\ finishedFade.kind = "in"
    /\ finishedFade.el = currentAudio
    /\ fades = <<>>
    /\ volume[currentAudio] = masterVolume

\* C40: when playSceneAudio was called for a channel after stopSceneAudio and
\* its play() succeeded, then once no fade timer is left the channel is
\* playing at the master volume.
C40_NewestRequestWins ==
    \A el \in AudioElements :
        (requested[el] = "playing after stop" /\ fades = <<>> /\ playPromises = <<>>)
            => (~paused[el] /\ volume[el] = masterVolume)

\* every registered channel is silent
Silent == \A el \in Registered : volume[el] = 0

\* C38: after muteAll, while neither unmuteAll nor setMasterVolume nor
\* playSceneAudio nor stopSceneAudio is called, every scene channel stays at
\* volume 0, whatever fade timers and play() promises were in flight.
C38_MuteHolds ==
    [][(lastMixerOp = "muteAll" /\ Silent
          /\ mixerCalls' = mixerCalls /\ audioCalls' = audioCalls)
        => Silent']_vars

---------------------------------------------------------------------------
(* Properties of GazeController                                            *)

\* the step is the handler of the cursor event op
IsGazeEvent(op) == lastGazeOp'[1] = op /\ lastGazeOp'[3] # lastGazeOp[3]

\* C34: a gaze that begins on a portal during a transition leaves isGazing,
\* gazeTarget and gazeStartTime as they are; a completed dwell on a portal
\* makes one switchScene request for the mapped scene, which the guard of
\* switchScene answers, and none when the portal has no mapping.
C34_GazeRespectsGuard ==
    /\ [][(IsGazeEvent("fusing") /\ lastGazeOp'[2] \in Portals /\ isTransitioning)
            => UNCHANGED <<isGazing, gazeTarget, gazeStartTime>>]_vars
    /\ [][(IsGazeEvent("click") /\ lastGazeOp'[2] \in Portals) =>
            LET target == portalMappings(lastGazeOp'[2])
                why == Rejection(SM, target)
            IN  IF target = NoArg THEN UNCHANGED sceneVars
                ELSE /\ target \in SceneKeys
                     /\ isTransitioning => why = "busy"
                     /\ why # "accepted" =>
                            /\ sceneLog' = why
                            /\ UNCHANGED <<currentScene, isTransitioning, sceneVisible,
                                           overlayVisible, flights, calls, resolved>>
                     /\ why = "accepted" =>
                            /\ Len(flights') = Len(flights) + 1
                            /\ SubSeq(flights', 1, Len(flights)) = flights
                            /\ flights'[Len(flights')].to = target
                            /\ flights'[Len(flights')].from = currentScene]_vars

\* C34 witness: a dwell on the portal to 2010 started the transition, and a
\* gaze that then began on the portal to 2020 was ignored
C34_Witness ==
    /\ lastGazeOp[1] = "fusing"
    /\ lastGazeOp[2] = "portal-2020"
    /\ isTransitioning
    /\ Len(flights) = 1
    /\ flights[1].to = "2010"
    /\ flights[1].from = "2000"
    /\ ~isGazing
    /\ gazeTarget = NoArg

---------------------------------------------------------------------------
(* Properties of UIManager                                                 *)

\* the pending timers of one kind, in the order they were created
Pending(kind) == SelectSeq(uiTimers, LAMBDA tm : tm.kind = kind)

\* the step is the callback of a cue timer: its text is shown
IsCueShown ==
    LET i == FirstDue(uiTimers)
    IN  /\ i # 0
        /\ uiTimers[i].kind = "cue"
        /\ uiTimers' = TimerCallback(UI, i).uiTimers

\* the step is the callback of an auto-hide timer
IsAutoHide ==
    LET i == FirstDue(uiTimers)
    IN  /\ i # 0
        /\ uiTimers[i].kind = "hide"
        /\ uiTimers' = Without(uiTimers, i)

\* C33: once startSubtitles(B) has returned, every pending cue timer is one
\* of B's, so no cue of the scene started before is shown, and B's cues are
\* shown in the order of their time offsets.
C33_OnlyNewestCues ==
    /\ [](\A i \in 1..Len(uiTimers) :
            uiTimers[i].kind = "cue" => uiTimers[i].text[1] = currentSubtitles)
    /\ [](\A i, j \in 1..Len(Pending("cue")) :
            i < j => /\ Pending("cue")[i].text[2] < Pending("cue")[j].text[2]
                     /\ Pending("cue")[i].due < Pending("cue")[j].due)
    /\ [][IsCueShown =>
            /\ subtitleText' = Head(Pending("cue")).text
            /\ subtitleText'[1] = currentSubtitles
            /\ ~subtitleHidden'
            /\ Pending("cue")' = Tail(Pending("cue"))]_vars

\* C33 witness: scene 2010 started its cues after a cue of scene 2000 had
\* been shown, and its first cue is on display
C33_Witness ==
    /\ currentSubtitles = "2010"
    /\ subtitleText = <<"2010", 1>>
    /\ ~subtitleHidden
    /\ \E i \in 1..Len(uiTimers) :
           uiTimers[i].kind = "hide" /\ uiTimers[i].text = <<"2000", 1>>
    /\ Len(Pending("cue")) = Len(CueTimes("2010")) - 1

\* C39: a subtitle on display is hidden by an auto-hide timer only when the
\* timer is its own, the one showSubtitle started for it (the newest one).
C39_OwnTimerHides ==
    [][(IsAutoHide /\ ~subtitleHidden) =>
          uiTimers[FirstDue(uiTimers)] = Pending("hide")[Len(Pending("hide"))]]_vars

---------------------------------------------------------------------------
(* Properties of the page's start-up                                       *)

\* the scene has loaded and every asset has fired 'loaded' or 'error'
AllReported == tracking /\ reported = totalAssets

\* C35: for any number of assets, and without an a-assets element, once the
\* scene has loaded and every asset has reported, startExperience has run or
\* its timer is pending; it runs once, and isReady tells that it has run.
C35_StartupNeverHangs ==
    /\ AllReported => (isReady \/ startTimers > 0)
    /\ starts + startTimers <= 1
    /\ isReady <=> starts = 1

---------------------------------------------------------------------------
(* Properties of the page                                                  *)

\* the step by which the page's cleanup routine runs
IsCleanup == ~cleanedUp /\ cleanedUp'

\* C23: when the page's cleanup routine has run, no timer remains pending: no
\* audio fade interval, no inertia animation frame, no auto-play interval, no
\* subtitle cue timer and no subtitle auto-hide timer.
C23_CleanupCancelsTimers ==
    [][IsCleanup =>
          /\ fades' = <<>>
          /\ frames' = {}
          /\ DOMAIN intervals' = {}
          /\ \A i \in 1..Len(uiTimers') : uiTimers'[i].kind \notin {"cue", "hide"}]_vars

====
